---- MODULE Spec2Model ----
(***************************************************************************)
(* Model of servermgr (src/servermgr/base.py and the concrete Managers):   *)
(* a Manager owns at most one handle of a worker process, start launches   *)
(* a worker, ready_wait polls the worker's liveness and health until the   *)
(* worker is ready, has exited, or the timeout has passed, stop and wait   *)
(* release the handle.  Workers, the listening address and the clock are   *)
(* the environment.                                                        *)
(*                                                                         *)
(* Time is counted in quarters of a second: time_delta (0.5 s) is 2.       *)
(***************************************************************************)
EXTENDS Integers, FiniteSets, Sequences, TLC

\* ------------------------------------------------------------------ bounds
MaxWorkers == 2          \* worker processes launched in one behaviour
MaxTimeout == 3          \* largest timeout a caller passes (quarter seconds)

\* -------------------------------------------------------- program constants
time_delta == 2          \* base.py:231: 0.5 s, in quarter seconds

Managers == {"m1", "m2"}
Workers == 1..MaxWorkers
NoProc == 0              \* self._process = None
None == "None"           \* Python's None as a poll() status
ExitStatuses == {"0", "1"}   \* return codes of an exited program
Timeouts == 1..MaxTimeout    \* the timeouts callers pass (0.25 s and up)
ProbeDelays == {0, 1}    \* time one health() probe takes
Kinds == {"nginx", "postgres", "pyro_service"}

VARIABLES
    kind,       \* kind[m]: the concrete Manager class of m
    process,    \* process[m]: the worker whose handle m owns, or NoProc
    pc,         \* pc[m]: where m's calling thread is
    call,       \* call[m]: the running (or just finished) call of m
    worker,     \* worker[w]: the OS process w
    foreign,    \* a listener on the address no Manager launched
    env,        \* the timeouts callers pass, the durations of a probe,
                \* the moments of a sleep at which a worker begins to
                \* serve, the failures of a connect, and whether life
                \* is recorded
    life        \* life[m]: the lifecycle state of m, a record of what
                \* its calls did to self.process so far

vars == <<kind, process, pc, call, worker, foreign, env, life>>

\* A call: its operation and arguments, the locals of ready_wait (elapsed =
\* time.time() - start_time, status), and what it did so far: entry is
\* self.process when it was called, h the handle ready_wait works on,
\* probeAt the time of the last health() probe, gone whether the worker had
\* already exited at that probe, term whether it sent terminate(),
\* afterStop whether it began when another Manager's stop(wait=True) of a
\* worker had returned, health the outcome of the last health() probe,
\* raised the strerror of the OSError the launch raised and err the
\* exception start let out for it, readyAt the time (on the clock of
\* elapsed) since which the owned worker has served and answered every
\* probe, -1 while it has not, werr the WorkerError that ready_wait or the
\* address check raised, resp what the last probe of an nginx Manager got
\* from its GET, conn the outcome of the connect attempt of the address
\* check and sock the socket it made, kept until start goes on to the
\* launch.
NoErr == [type |-> "none", strerror |-> ""]

\* WorkerError.__init__(self, exception, *args): the first argument is kept
\* as self.exception, the rest is the message of the Exception.
WorkerError(exception, args) == [exception |-> exception, args |-> args]

\* WorkerError.__str__: the message, then the exception when there is one.
WorkerError_str(e) ==
    IF e.exception = None THEN e.args ELSE e.args \o " " \o e.exception

NoCall == [op |-> "none", wait |-> FALSE, timeout |-> 0, elapsed |-> 0,
           status |-> None, probeAt |-> 0, nPolls |-> 0, nProbes |-> 0,
           nSleeps |-> 0, entry |-> NoProc, h |-> NoProc, gone |-> FALSE,
           term |-> FALSE, afterStop |-> FALSE, health |-> "none",
           raised |-> "", err |-> NoErr, readyAt |-> -1,
           werr |-> WorkerError(None, ""),
           resp |-> [err |-> "none", body |-> <<>>],
           conn |-> "none", sock |-> "none",
           result |-> "none"]

NoWorker == [st |-> "none", by |-> "none", term |-> FALSE]

Stopped(n) ==
    /\ pc[n] = "done" /\ call[n].op = "stop" /\ call[n].wait
    /\ call[n].entry # NoProc

NewCall(m, o, w, t) ==
    [NoCall EXCEPT !.op = o, !.wait = w, !.timeout = t, !.entry = process[m],
                   !.afterStop = \E n \in Managers \ {m} : Stopped(n),
                   !.readyAt = IF /\ o = "ready_wait"
                                  /\ env.offsets # {}
                                  /\ process[m] # NoProc
                                  /\ worker[process[m]].st = "serving"
                               THEN 0 ELSE -1]

\* ------------------------------------------------------------ environment
\* Something accepts connections on the address.
Listening == foreign \/ \E w \in Workers : worker[w].st = "serving"

Alive(w) == worker[w].st \in {"running", "serving"}

\* The moments of a sleep of ready_wait at which the worker can begin to
\* serve: at its start, or a quarter second into it.
SleepOffsets == 0..(time_delta - 1)

\* The worker binds its address and serves requests; a ready_wait that is
\* waiting for it is, at that moment, at its last clock reading or some
\* way into its sleep.  readyAt only observes: a specification whose
\* env.offsets is empty does not keep it.
WorkerServe(w) ==
    /\ worker[w].st = "running"
    /\ ~Listening
    /\ worker' = [worker EXCEPT ![w].st = "serving"]
    /\ IF env.offsets = {}
       THEN UNCHANGED call
       ELSE \E o \in env.offsets :
         /\ o > 0 => \E m \in Managers : process[m] = w /\ pc[m] = "rw_sleep"
         /\ call' = [m \in Managers |->
                IF process[m] = w /\ pc[m] \in {"rw_enter", "rw_health",
                                                "rw_sleep", "rw_termwait"}
                THEN [call[m] EXCEPT !.readyAt =
                         IF pc[m] = "rw_sleep" THEN call[m].elapsed + o
                                               ELSE call[m].elapsed]
                ELSE call[m]]
    /\ UNCHANGED <<kind, process, pc, foreign, env>>

\* The worker exits: on its own, or as its reaction to a terminate request.
WorkerExit(w) ==
    /\ Alive(w)
    /\ worker' = [worker EXCEPT ![w].st = "exited"]
    /\ UNCHANGED <<kind, process, pc, call, foreign, env>>

ForeignBind ==
    /\ ~Listening
    /\ foreign' = TRUE
    /\ UNCHANGED <<kind, process, pc, call, worker, env>>

ForeignClose ==
    /\ foreign
    /\ foreign' = FALSE
    /\ UNCHANGED <<kind, process, pc, call, worker, env>>

\* ---------------------------------------------------------- ProcessHandle
\* wrap_process: a Popen has "wait", a multiprocessing.Process has not.
wrap_process(m) ==
    IF kind[m] = "pyro_service" THEN "MultiprocessingWrapper"
                                ELSE "SubprocessWrapper"

\* The two wrappers of a handle.
HandleKinds == {"SubprocessWrapper", "MultiprocessingWrapper"}

\* A MultiprocessingWrapper.poll that returns "not is_alive()": False
\* while the worker runs.
poll_by_not_alive(h, w) ==
    IF h = "MultiprocessingWrapper"
    THEN (IF Alive(w) THEN {"False"} ELSE {"True"})
    ELSE (IF Alive(w) THEN {None} ELSE ExitStatuses)

\* poll() of a handle wrapped by h: the statuses a poll can give.  None
\* while the worker runs; Popen gives the return code of the exited
\* program (any of them), MultiprocessingWrapper.poll gives True.
poll_by(h, w) ==
    IF Alive(w) THEN {None}
    ELSE IF h = "MultiprocessingWrapper" THEN {"True"}
    ELSE ExitStatuses

\* self.process.poll() of Manager m.
poll(m, w) == poll_by(wrap_process(m), w)

\* A terminate that signals every live worker, as a kill of the process
\* group does.
terminate_group(w) ==
    [x \in Workers |-> IF Alive(x) \/ x = w
                       THEN [worker[x] EXCEPT !.term = TRUE]
                       ELSE worker[x]]

\* terminate(): the request is delivered; the worker exits when it reacts.
terminate(w) == [worker EXCEPT ![w].term = TRUE]

\* A wait() that returns at once, as poll() does.
wait_returns_at_once(w) == TRUE

\* A wait() that never returns.
wait_returns_never(w) == FALSE

\* wait() / join(None) return once the worker has exited.
wait_returns(w) == ~Alive(w)

\* ------------------------------------------------------------- ready_wait
\* The loop condition written "while not status": return code 0 is falsy.
StillRunningFalsy(status) == status \in {None, "0"}

\* while status == None
StillRunning(status) == status = None

\* A timeout check that gives up when the next probe would come too late.
TimedOutAhead(elapsed, timeout) == elapsed + time_delta > timeout

\* time.time() - start_time > timeout
TimedOut(elapsed, timeout) == elapsed > timeout

\* The outcomes of one health() probe: it succeeds only when something
\* answers on the address; it raises WorkerError when the probe's own
\* exception class is caught, and any other exception passes through.
HealthOutcomes(m) ==
    (IF Listening THEN {"ok"} ELSE {}) \cup {"WorkerError"}
    \cup (IF kind[m] = "pyro_service" THEN {} ELSE {"Exception"})

\* What urllib.urlopen got: an HTTP response with a body (a first part and
\* the rest), or IOError when nobody answered.
NoResp == [err |-> "none", body |-> <<>>]

\* The body of nginx's stub_status page, and the body of another answer.
StatusBody == <<"Active connections:", " 1 ">>

OtherBody == <<"<html>", "403 Forbidden</html>">>

\* status.startswith(prefix)
startswith(body, prefix) == body # <<>> /\ body[1] = prefix

\* The results the GET of /nginx_status can have: the status page from an
\* nginx worker, any page from another listener, IOError when the connect
\* fails.
urlopen ==
    {[err |-> "IOError", body |-> <<>>]}
    \cup (IF \E w \in Workers : /\ worker[w].st = "serving"
                                 /\ kind[worker[w].by] = "nginx"
          THEN {[err |-> "", body |-> StatusBody]} ELSE {})
    \cup (IF foreign
          THEN {[err |-> "", body |-> b] : b \in {StatusBody, OtherBody}}
          ELSE {})

\* A health() that reads the page and wants the status prefix, as
\* read_status_test does.
nginx_health_checks_prefix(r) ==
    IF r.err = "" /\ startswith(r.body, "Active connections:")
    THEN "ok" ELSE "WorkerError"

\* nginx.py 230-233: health() only opens the URL; IOError becomes
\* WorkerError, any response is success.
nginx_health(r) == IF r.err = "IOError" THEN "WorkerError" ELSE "ok"

\* One health() probe: what it got and how it ended.
Probes(m) ==
    IF kind[m] = "nginx"
    THEN {[resp |-> r, out |-> nginx_health(r)] : r \in urlopen}
         \cup {[resp |-> NoResp, out |-> "Exception"]}
    ELSE {[resp |-> NoResp, out |-> o] : o \in HealthOutcomes(m)}

Finish(m, c, res) ==
    /\ call' = [call EXCEPT ![m] = [c EXCEPT !.result = res]]
    /\ pc' = [pc EXCEPT ![m] = "done"]

\* self.name: the name each Manager class passes to Manager.__init__.
name(m) ==
    CASE kind[m] = "nginx" -> "Nginx"
      [] kind[m] = "postgres" -> "Postgres"
      [] OTHER -> "<unnamed>"

\* Line 228: raise WorkerError(None, self.name + " No subprocess").
no_subprocess_error(m) == WorkerError(None, name(m) \o " No subprocess")

\* Line 246: raise WorkerError(None, self.name + " Taking too long to
\* start.").
too_long_error(m) == WorkerError(None, name(m) \o " Taking too long to start.")

\* The host and port every Manager of the model is given.
Address == "localhost 8080"

\* Line 108: raise WorkerError(None, "address already in use", host, port);
\* the function is given the host and the port only.
address_in_use_error ==
    WorkerError(None, "address already in use" \o " " \o Address)

\* The exit path ending in a plain return instead of the raise of line 256.
rw_exited_returns(m, c) ==
    /\ process' = [process EXCEPT ![m] = NoProc]
    /\ Finish(m, c, "ok")

\* What the exited worker wrote to its standard error.
StderrText == "bind: address already in use"

\* Lines 252-254: errors is what the stderr pipe of the handle holds; a
\* handle without one (multiprocessing.Process) leaves it None.
stderr_by(h) == IF h = "SubprocessWrapper" THEN StderrText ELSE None

\* errors, for the handle of Manager m.
stderr_read(m) == stderr_by(wrap_process(m))

\* An exit path that calls terminate() on the handle before dropping it.
rw_exited_terminates(m, c) ==
    /\ process' = [process EXCEPT ![m] = NoProc]
    /\ Finish(m, [c EXCEPT !.term = TRUE,
                           !.werr = WorkerError(name(m), stderr_read(m))],
              "ProcessExitedUnexpectedly")

\* Lines 252-256: the loop was left because poll() gave a status.
rw_exited(m, c) ==
    /\ process' = [process EXCEPT ![m] = NoProc]
    /\ Finish(m, [c EXCEPT !.werr = WorkerError(name(m), stderr_read(m))],
              "ProcessExitedUnexpectedly")

\* ready_wait without the check of line 227: None.poll() raises.
ready_wait_enter_unguarded(m, c) ==
    IF process[m] = NoProc
    THEN /\ Finish(m, [c EXCEPT !.nPolls = 1], "AttributeError")
         /\ UNCHANGED process
    ELSE \E s \in poll(m, process[m]) :
           LET c1 == [c EXCEPT !.status = s, !.nPolls = 1, !.h = process[m]]
           IN IF StillRunning(s)
              THEN /\ call' = [call EXCEPT ![m] = c1]
                   /\ pc' = [pc EXCEPT ![m] = "rw_health"]
                   /\ UNCHANGED process
              ELSE rw_exited(m, c1)

\* ready_wait sleeping one interval before its first poll.
ready_wait_enter_sleeps(m, c) ==
    IF process[m] = NoProc
    THEN /\ Finish(m, [c EXCEPT !.werr = no_subprocess_error(m)],
                   "NoSubprocess")
         /\ UNCHANGED process
    ELSE \E s \in poll(m, process[m]) :
           LET c1 == [c EXCEPT !.status = s, !.nPolls = 1, !.h = process[m],
                               !.nSleeps = 1, !.elapsed = time_delta]
           IN IF StillRunning(s)
              THEN /\ call' = [call EXCEPT ![m] = c1]
                   /\ pc' = [pc EXCEPT ![m] = "rw_health"]
                   /\ UNCHANGED process
              ELSE rw_exited(m, c1)

\* A ready_wait that takes a worker that is running at its first poll for
\* ready, without a probe.
ready_wait_enter_trusts(m, c) ==
    IF process[m] = NoProc
    THEN /\ Finish(m, [c EXCEPT !.werr = no_subprocess_error(m)],
                   "NoSubprocess")
         /\ UNCHANGED process
    ELSE \E s \in poll(m, process[m]) :
           LET c1 == [c EXCEPT !.status = s, !.nPolls = 1, !.h = process[m]]
           IN IF StillRunning(s)
              THEN /\ Finish(m, c1, "ok")
                   /\ UNCHANGED process
              ELSE rw_exited(m, c1)

\* Lines 227-233: no-subprocess check, start time, first poll.
ready_wait_enter(m, c) ==
    IF process[m] = NoProc
    THEN /\ Finish(m, [c EXCEPT !.werr = no_subprocess_error(m)],
                   "NoSubprocess")
         /\ UNCHANGED process
    ELSE \E s \in poll(m, process[m]) :
           LET c1 == [c EXCEPT !.status = s, !.nPolls = 1, !.h = process[m]]
           IN IF StillRunning(s)
              THEN /\ call' = [call EXCEPT ![m] = c1]
                   /\ pc' = [pc EXCEPT ![m] = "rw_health"]
                   /\ UNCHANGED process
              ELSE rw_exited(m, c1)

\* ready_wait(timeout) called by the application.
ReadyWait(m, t) ==
    /\ pc[m] = "idle"
    /\ ready_wait_enter(m, NewCall(m, "ready_wait", TRUE, t))
    /\ UNCHANGED <<kind, worker, foreign, env>>

\* ready_wait(timeout) called by start(wait=True).
RWEnter(m) ==
    /\ pc[m] = "rw_enter"
    /\ ready_wait_enter(m, call[m])
    /\ UNCHANGED <<kind, worker, foreign, env>>

\* health() failures leave ready_wait: the loop without the try/except of
\* lines 234-240.
RWHealthSurfaces(m) ==
    /\ pc[m] = "rw_health"
    /\ \E p \in Probes(m), d \in env.delays :
         LET out == p.out
             c == [call[m] EXCEPT !.nProbes = @ + 1,
                                  !.resp = p.resp,
                                  !.probeAt = call[m].elapsed,
                                  !.gone = ~Alive(process[m]),
                                  !.health = out,
                                  !.readyAt = IF out = "ok" THEN @ ELSE -1,
                                  !.elapsed = @ + d]
         IN Finish(m, c, IF out = "WorkerError" THEN "HealthCheckFailure"
                                                ELSE out)
    /\ UNCHANGED <<kind, process, worker, foreign, env>>

\* A success path that drops the handle, as the failure paths do.
RWHealthReleases(m) ==
    /\ pc[m] = "rw_health"
    /\ \E p \in Probes(m), d \in env.delays :
         LET out == p.out
             c == [call[m] EXCEPT !.nProbes = @ + 1,
                                  !.resp = p.resp,
                                  !.probeAt = call[m].elapsed,
                                  !.gone = ~Alive(process[m]),
                                  !.health = out,
                                  !.readyAt = IF out = "ok" THEN @ ELSE -1,
                                  !.elapsed = @ + d]
         IN CASE out = "ok" ->
                   /\ Finish(m, c, "ok")
                   /\ process' = [process EXCEPT ![m] = NoProc]
                   /\ UNCHANGED worker
              [] out = "Exception" ->
                   /\ Finish(m, c, "Exception")
                   /\ UNCHANGED <<process, worker>>
              [] out = "WorkerError" ->
                   IF TimedOut(c.elapsed, c.timeout)
                   THEN /\ worker' = terminate(process[m])
                        /\ call' = [call EXCEPT ![m] = [c EXCEPT !.term = TRUE]]
                        /\ pc' = [pc EXCEPT ![m] = "rw_termwait"]
                        /\ UNCHANGED process
                   ELSE /\ call' = [call EXCEPT ![m] = c]
                        /\ pc' = [pc EXCEPT ![m] = "rw_sleep"]
                        /\ UNCHANGED <<process, worker>>
    /\ UNCHANGED <<kind, foreign, env>>

\* Lines 234-246: one health() probe, then the timeout check.
RWHealth(m) ==
    /\ pc[m] = "rw_health"
    /\ \E p \in Probes(m), d \in env.delays :
         LET out == p.out
             c == [call[m] EXCEPT !.nProbes = @ + 1,
                                  !.resp = p.resp,
                                  !.probeAt = call[m].elapsed,
                                  !.gone = ~Alive(process[m]),
                                  !.health = out,
                                  !.readyAt = IF out = "ok" THEN @ ELSE -1,
                                  !.elapsed = @ + d]
         IN CASE out = "ok" ->
                   /\ Finish(m, c, "ok")
                   /\ UNCHANGED <<process, worker>>
              [] out = "Exception" ->
                   /\ Finish(m, c, "Exception")
                   /\ UNCHANGED <<process, worker>>
              [] out = "WorkerError" ->
                   IF TimedOut(c.elapsed, c.timeout)
                   THEN /\ worker' = terminate(process[m])
                        /\ call' = [call EXCEPT ![m] = [c EXCEPT !.term = TRUE]]
                        /\ pc' = [pc EXCEPT ![m] = "rw_termwait"]
                        /\ UNCHANGED process
                   ELSE /\ call' = [call EXCEPT ![m] = c]
                        /\ pc' = [pc EXCEPT ![m] = "rw_sleep"]
                        /\ UNCHANGED <<process, worker>>
    /\ UNCHANGED <<kind, foreign, env>>

\* The timeout path without self.process.wait(): the worker is abandoned.
RWTimeoutNoWait(m) ==
    /\ pc[m] = "rw_termwait"
    /\ process' = [process EXCEPT ![m] = NoProc]
    /\ Finish(m, [call[m] EXCEPT !.werr = too_long_error(m)],
              "StartupTimeout")
    /\ UNCHANGED <<kind, worker, foreign, env>>

\* Lines 244-246: self.process.wait() has returned after the terminate().
RWTimeoutWait(m) ==
    /\ pc[m] = "rw_termwait"
    /\ wait_returns(process[m])
    /\ process' = [process EXCEPT ![m] = NoProc]
    /\ Finish(m, [call[m] EXCEPT !.werr = too_long_error(m)],
              "StartupTimeout")
    /\ UNCHANGED <<kind, worker, foreign, env>>

\* A loop that sleeps two intervals between probes.
RWSleepTwice(m) ==
    /\ pc[m] = "rw_sleep"
    /\ \E s \in poll(m, process[m]) :
         LET c == [call[m] EXCEPT !.elapsed = @ + time_delta + time_delta,
                                  !.nSleeps = @ + 1,
                                  !.nPolls = @ + 1, !.status = s]
         IN IF StillRunning(s)
            THEN /\ call' = [call EXCEPT ![m] = c]
                 /\ pc' = [pc EXCEPT ![m] = "rw_health"]
                 /\ UNCHANGED process
            ELSE rw_exited(m, c)
    /\ UNCHANGED <<kind, worker, foreign, env>>

\* Lines 248-250: time.sleep(time_delta), then poll() again.
RWSleep(m) ==
    /\ pc[m] = "rw_sleep"
    /\ \E s \in poll(m, process[m]) :
         LET c == [call[m] EXCEPT !.elapsed = @ + time_delta,
                                  !.nSleeps = @ + 1,
                                  !.nPolls = @ + 1, !.status = s]
         IN IF StillRunning(s)
            THEN /\ call' = [call EXCEPT ![m] = c]
                 /\ pc' = [pc EXCEPT ![m] = "rw_health"]
                 /\ UNCHANGED process
            ELSE rw_exited(m, c)
    /\ UNCHANGED <<kind, worker, foreign, env>>

\* ------------------------------------------------------------ stop / wait
\* stop without the check of line 266: None.terminate() raises.
stop_unguarded(m, o, w) ==
    LET c == NewCall(m, o, w, 0) IN
    IF process[m] # NoProc
    THEN /\ worker' = terminate(process[m])
         /\ IF w
            THEN /\ call' = [call EXCEPT ![m] = [c EXCEPT !.term = TRUE]]
                 /\ pc' = [pc EXCEPT ![m] = "stop_wait"]
                 /\ UNCHANGED process
            ELSE /\ process' = [process EXCEPT ![m] = NoProc]
                 /\ Finish(m, [c EXCEPT !.term = TRUE], "ok")
    ELSE /\ Finish(m, c, "AttributeError")
         /\ UNCHANGED <<process, worker>>

\* stop(wait): lines 266-272.  op is "stop", or "__del__" for the finalizer.
stop(m, o, w) ==
    LET c == NewCall(m, o, w, 0) IN
    IF process[m] # NoProc
    THEN /\ worker' = terminate(process[m])
         /\ IF w
            THEN /\ call' = [call EXCEPT ![m] = [c EXCEPT !.term = TRUE]]
                 /\ pc' = [pc EXCEPT ![m] = "stop_wait"]
                 /\ UNCHANGED process
            ELSE /\ process' = [process EXCEPT ![m] = NoProc]
                 /\ Finish(m, [c EXCEPT !.term = TRUE], "ok")
    ELSE /\ Finish(m, c, "ok")
         /\ UNCHANGED <<process, worker>>

Stop(m, w) ==
    /\ pc[m] = "idle"
    /\ stop(m, "stop", w)
    /\ UNCHANGED <<kind, foreign, env>>

\* Lines 270-272: self.process.wait() has returned.
StopWait(m) ==
    /\ pc[m] = "stop_wait"
    /\ wait_returns(process[m])
    /\ process' = [process EXCEPT ![m] = NoProc]
    /\ Finish(m, call[m], "ok")
    /\ UNCHANGED <<kind, worker, foreign, env>>

\* A wait() that asks the worker to terminate, as stop() does.
WaitTerminates(m) ==
    /\ pc[m] = "idle"
    /\ LET c == NewCall(m, "wait", TRUE, 0) IN
       IF process[m] # NoProc
       THEN /\ worker' = terminate(process[m])
            /\ call' = [call EXCEPT ![m] = [c EXCEPT !.term = TRUE]]
            /\ pc' = [pc EXCEPT ![m] = "wait_wait"]
       ELSE /\ Finish(m, c, "ok")
            /\ UNCHANGED worker
    /\ UNCHANGED <<kind, process, foreign, env>>

\* wait(): lines 277-279.
Wait(m) ==
    /\ pc[m] = "idle"
    /\ LET c == NewCall(m, "wait", TRUE, 0) IN
       IF process[m] # NoProc
       THEN /\ call' = [call EXCEPT ![m] = c]
            /\ pc' = [pc EXCEPT ![m] = "wait_wait"]
       ELSE Finish(m, c, "ok")
    /\ UNCHANGED <<kind, process, worker, foreign, env>>

WaitDone(m) ==
    /\ pc[m] = "wait_wait"
    /\ wait_returns(process[m])
    /\ process' = [process EXCEPT ![m] = NoProc]
    /\ Finish(m, call[m], "ok")
    /\ UNCHANGED <<kind, worker, foreign, env>>

\* __del__: lines 185-187, the finalizer calls stop().
Del(m) ==
    /\ pc[m] = "idle"
    /\ stop(m, "__del__", TRUE)
    /\ UNCHANGED <<kind, foreign, env>>

\* address_in_use with the two return values exchanged.
address_in_use_swapped == ~Listening

\* An address check that also counts the addresses other Managers have
\* claimed: a start that passed its check, a worker launched for it.
address_in_use_reserved ==
    \/ Listening
    \/ \E m \in Managers : pc[m] = "start_launch"
    \/ \E w \in Workers : worker[w].st = "running"

\* ------------------------------------------------------------------ start
\* address_in_use: a TCP connect to host:port succeeds.
address_in_use == Listening

\* The socket.error exceptions socket.create_connection raises: the
\* connect was refused, it timed out (socket.timeout), the host did not
\* resolve (socket.gaierror).
SocketErrors == {"ECONNREFUSED", "timeout", "gaierror"}

\* socket.create_connection((host, port)): it connects when something
\* accepts connections on the address and raises socket.error otherwise.
create_connection == IF Listening THEN {"connected"} ELSE env.errors

\* An address_in_use without the except clause: the socket.error leaves it.
address_in_use_uncaught(o) ==
    IF o = "connected"
    THEN [ret |-> TRUE, sock |-> "closed", exc |-> None]
    ELSE [ret |-> FALSE, sock |-> "none", exc |-> "socket.error"]

\* Lines 89-94, for the outcome o of the connect: a connection made is
\* closed and True returned; socket.error is caught and False returned.
address_in_use_body(o) ==
    IF o = "connected"
    THEN [ret |-> TRUE, sock |-> "closed", exc |-> None]
    ELSE [ret |-> FALSE, sock |-> "none", exc |-> None]

\* An address check that never raises.
address_free_check_passes == "ok"

\* address_free_check raises WorkerError when the address is in use.
address_free_check == IF address_in_use THEN "AddressInUse" ELSE "ok"

Unused == {w \in Workers : worker[w].st = "none"}

\* The strerror of the OSError a failed launch raises.
OSErrors == {"No such file or directory", "Permission denied"}

\* A handler that wraps the OSError of the launch in a WorkerError.
launch_error_wrapped(m, e) == [type |-> "WorkerError", strerror |-> e]

\* What start lets out when the launch raised OSError with strerror e:
\* postgres.py 185-187 appends a note to strerror and raises the OSError
\* again; the other Managers have no handler around the launch.
launch_error(m, e) ==
    IF kind[m] = "postgres"
    THEN [type |-> "OSError",
          strerror |-> e \o ": postgres; new path element:"]
    ELSE [type |-> "OSError", strerror |-> e]

\* A launch whose OSError handler clears self.process.
launch_clears(m, c) ==
    /\ Unused # {}
    /\ \/ /\ \E e \in OSErrors :
               Finish(m, [c EXCEPT !.raised = e, !.err = launch_error(m, e)],
                      "OSError")
          /\ process' = [process EXCEPT ![m] = NoProc]
          /\ UNCHANGED worker
       \/ LET w == CHOOSE x \in Unused : \A y \in Unused : x <= y IN
          /\ worker' = [worker EXCEPT ![w] = [st |-> "running", by |-> m,
                                             term |-> FALSE]]
          /\ process' = [process EXCEPT ![m] = w]
          /\ IF c.wait
             THEN /\ call' = [call EXCEPT ![m] = c]
                  /\ pc' = [pc EXCEPT ![m] = "rw_enter"]
             ELSE Finish(m, c, "ok")

\* A launch that runs ready_wait whatever the wait argument says.
launch_always_waits(m, c) ==
    /\ Unused # {}
    /\ \/ /\ \E e \in OSErrors :
               Finish(m, [c EXCEPT !.raised = e, !.err = launch_error(m, e)],
                      "OSError")
          /\ UNCHANGED <<process, worker>>
       \/ LET w == CHOOSE x \in Unused : \A y \in Unused : x <= y IN
          /\ worker' = [worker EXCEPT ![w] = [st |-> "running", by |-> m,
                                             term |-> FALSE]]
          /\ process' = [process EXCEPT ![m] = w]
          /\ call' = [call EXCEPT ![m] = c]
          /\ pc' = [pc EXCEPT ![m] = "rw_enter"]

\* The launch (subprocess.Popen / multiprocessing.Process.start) and the
\* assignment self.process = ...; then ready_wait when wait is true.
launch(m, c) ==
    /\ Unused # {}
    /\ \/ /\ \E e \in OSErrors :
               Finish(m, [c EXCEPT !.raised = e, !.err = launch_error(m, e)],
                      "OSError")
          /\ UNCHANGED <<process, worker>>
       \/ LET w == CHOOSE x \in Unused : \A y \in Unused : x <= y IN
          /\ worker' = [worker EXCEPT ![w] = [st |-> "running", by |-> m,
                                             term |-> FALSE]]
          /\ process' = [process EXCEPT ![m] = w]
          /\ IF c.wait
             THEN /\ call' = [call EXCEPT ![m] = c]
                  /\ pc' = [pc EXCEPT ![m] = "rw_enter"]
             ELSE Finish(m, c, "ok")

\* start(wait, timeout): postgres.py 168-190 checks the address first;
\* nginx.py 235-259, django_app.py 56-73, pyro*.py launch at once.
Start(m, w, t) ==
    /\ pc[m] = "idle"
    /\ LET c == NewCall(m, "start", w, t) IN
       IF kind[m] = "postgres"
       THEN /\ Unused # {}
            /\ \E o \in create_connection :
                 LET r == address_in_use_body(o)
                     c1 == [c EXCEPT !.conn = o, !.sock = r.sock]
                 IN IF r.exc # None
                    THEN Finish(m, c1, r.exc)
                    ELSE IF address_free_check = "ok"
                    THEN /\ call' = [call EXCEPT ![m] = c1]
                         /\ pc' = [pc EXCEPT ![m] = "start_launch"]
                    ELSE Finish(m, [c1 EXCEPT !.werr = address_in_use_error],
                                "AddressInUse")
            /\ UNCHANGED <<process, worker>>
       ELSE launch(m, c)
    /\ UNCHANGED <<kind, foreign, env>>

\* postgres.py 177-187: the Popen after the address check.
StartLaunch(m) ==
    /\ pc[m] = "start_launch"
    /\ launch(m, [call[m] EXCEPT !.conn = "none", !.sock = "none"])
    /\ UNCHANGED <<kind, foreign, env>>

\* The call returns (or raises) to the application, which may call again;
\* a finalized Manager is gone.
Return(m) ==
    /\ pc[m] = "done"
    /\ pc' = [pc EXCEPT ![m] = IF call[m].op = "__del__" THEN "finalized"
                                                         ELSE "idle"]
    /\ call' = [call EXCEPT ![m] = NoCall]
    /\ UNCHANGED <<kind, process, worker, foreign, env>>

\* The lifecycle states of a Manager.
LifeStates == {"Idle", "Starting", "Ready", "Stopped", "Failed"}

\* The lifecycle state of m after a step: Starting when a launch has
\* assigned a new handle to self.process; Stopped when stop, __del__ or
\* wait has cleared it, Failed when ready_wait has; Ready when ready_wait
\* has returned normally for the handle still owned.
lifecycle(m) ==
    CASE process'[m] # NoProc /\ process'[m] # process[m] -> "Starting"
      [] process[m] # NoProc /\ process'[m] = NoProc ->
            IF call'[m].op \in {"stop", "__del__", "wait"}
            THEN "Stopped" ELSE "Failed"
      [] /\ pc[m] # "done" /\ pc'[m] = "done"
         /\ call'[m].result = "ok" /\ call'[m].h # NoProc
         /\ process'[m] # NoProc -> "Ready"
      [] OTHER -> life[m]

\* The record of the lifecycle, kept by the specifications that ask for it.
Track ==
    life' = IF env.lifecycle THEN [m \in Managers |-> lifecycle(m)] ELSE life

\* ---------------------------------------------------------- specification
\* Manager.__init__ (lines 179-183) has run for the Managers of S; the
\* others are never constructed.
InitWith(S, T, D, O, E, L) ==
    /\ kind \in [Managers -> Kinds]
    /\ \A m \in Managers \ S : kind[m] = "nginx"
    /\ env = [timeouts |-> T, delays |-> D, offsets |-> O, errors |-> E,
              lifecycle |-> L]
    /\ life = [m \in Managers |-> "Idle"]
    /\ process = [m \in Managers |-> NoProc]
    /\ pc = [m \in Managers |-> IF m \in S THEN "idle" ELSE "absent"]
    /\ call = [m \in Managers |-> NoCall]
    /\ worker = [w \in Workers |-> NoWorker]
    /\ foreign = FALSE

Next ==
    \/ \E m \in Managers, w \in BOOLEAN, t \in env.timeouts :
          Start(m, w, t) /\ Track
    \/ \E m \in Managers : StartLaunch(m) /\ Track
    \/ \E m \in Managers, t \in env.timeouts :
          ReadyWait(m, t) /\ Track
    \/ \E m \in Managers : RWEnter(m) /\ Track
    \/ \E m \in Managers : RWHealth(m) /\ Track
    \/ \E m \in Managers : RWTimeoutWait(m) /\ Track
    \/ \E m \in Managers : RWSleep(m) /\ Track
    \/ \E m \in Managers, w \in BOOLEAN : Stop(m, w) /\ Track
    \/ \E m \in Managers : StopWait(m) /\ Track
    \/ \E m \in Managers : Wait(m) /\ Track
    \/ \E m \in Managers : WaitDone(m) /\ Track
    \/ \E m \in Managers : Del(m) /\ Track
    \/ \E m \in Managers : Return(m) /\ Track
    \/ \E w \in Workers : WorkerServe(w) /\ Track
    \/ \E w \in Workers : WorkerExit(w) /\ Track
    \/ ForeignBind /\ Track
    \/ ForeignClose /\ Track

\* One Manager of any kind, any timeout, probes of any duration, any
\* failure of a connect.
Init ==
    InitWith({"m1"}, Timeouts, ProbeDelays, SleepOffsets, SocketErrors, TRUE)

Spec == Init /\ [][Next]_vars

\* Two Managers on the same address, the second a database Manager; the
\* callers pass the timeout 0.25 s, a probe takes no time, the moment a
\* worker begins to serve is not recorded, and a connect that fails is
\* refused.
Init2 ==
    /\ InitWith(Managers, {1}, {0}, {}, {"ECONNREFUSED"}, FALSE)
    /\ kind["m1"] \in {"nginx", "postgres"}
    /\ kind["m2"] = "postgres"

Spec2 == Init2 /\ [][Next]_vars

\* ------------------------------------------------------------- properties
Done(m) == pc[m] = "done"

\* The finished call of m ran the polling loop of ready_wait.
RanReadyWait(m) == Done(m) /\ call[m].h # NoProc

\* C1: ready_wait returns successfully only on a health() probe made while
\* the last poll() reported the worker running and before the timeout had
\* elapsed; stated here in its weakest form, that no successful probe is
\* made after `timeout` has already elapsed since ready_wait began.
C1_NoSuccessAfterTimeout ==
    \A m \in Managers :
        (RanReadyWait(m) /\ call[m].result = "ok")
            => /\ call[m].status = None
               /\ call[m].probeAt <= call[m].timeout

\* C2 as claimed: a worker that has exited before any health() probe
\* succeeded makes ready_wait fail with ProcessExitedUnexpectedly and
\* process null.  Here the worker had exited by the time of the last
\* probe; calls that end in success or in an exception of the probe
\* itself are left out, so a violation is a WorkerError of another kind.
C2_ExitAlwaysReported ==
    \A m \in Managers :
        (RanReadyWait(m) /\ call[m].gone
              /\ call[m].result \notin {"ok", "Exception"})
            => /\ call[m].result = "ProcessExitedUnexpectedly"
               /\ process[m] = NoProc

\* C2 amended: when a poll() inside ready_wait (the first one, or one after
\* a sleep) reports that the worker has exited, with any status, 0
\* included, ready_wait fails with ProcessExitedUnexpectedly and process is
\* null when the error is raised; and that error is raised in no other
\* case.
C2_PolledExitReported ==
    \A m \in Managers :
        /\ (pc[m] \in {"rw_health", "rw_sleep", "rw_termwait"})
              => call[m].status = None
        /\ (RanReadyWait(m) /\ call[m].status # None)
              => /\ call[m].result = "ProcessExitedUnexpectedly"
                 /\ process[m] = NoProc
                 /\ ~Alive(call[m].h)
        /\ (Done(m) /\ call[m].result = "ProcessExitedUnexpectedly")
              => /\ call[m].h # NoProc
                 /\ call[m].status # None
                 /\ call[m].nPolls = call[m].nSleeps + 1

\* C2 witness: the worker exited with status 0 between two polls.
C2_Witness ==
    \E m \in Managers :
        /\ Done(m) /\ call[m].result = "ProcessExitedUnexpectedly"
        /\ call[m].status = "0"
        /\ call[m].nPolls >= 2

\* C3: when health() has not succeeded and the worker was still reported
\* running once `timeout` has passed, ready_wait fails with StartupTimeout
\* (it never goes on sleeping past the timeout), and when that error is
\* raised the worker was sent terminate(), has exited (a poll reports a
\* status) and process is null.
C3_StartupTimeout ==
    \A m \in Managers :
        /\ pc[m] = "rw_sleep" => call[m].elapsed <= call[m].timeout
        /\ pc[m] = "rw_termwait"
              => /\ call[m].elapsed > call[m].timeout
                 /\ call[m].term /\ worker[process[m]].term
        /\ (RanReadyWait(m) /\ call[m].status = None
                /\ call[m].result \notin {"ok", "Exception"})
              => call[m].result = "StartupTimeout"
        /\ (Done(m) /\ call[m].result = "StartupTimeout")
              => /\ call[m].elapsed > call[m].timeout
                 /\ call[m].term /\ worker[call[m].h].term
                 /\ ~Alive(call[m].h)
                 /\ None \notin poll(m, call[m].h)
                 /\ process[m] = NoProc

\* C3 witness: a timeout after at least one sleep.
C3_Witness ==
    \E m \in Managers :
        /\ Done(m) /\ call[m].result = "StartupTimeout"
        /\ call[m].nSleeps >= 1
        /\ ~call[m].gone

\* C4: a start on a Manager that owned no process and ends by raising
\* leaves the Manager without a process and the worker it launched not
\* running.
C4_FailedStartOwnsNothing ==
    \A m \in Managers :
        (Done(m) /\ call[m].op = "start" /\ call[m].entry = NoProc
              /\ call[m].result # "ok")
            => /\ process[m] = NoProc
               /\ (call[m].h # NoProc => ~Alive(call[m].h))

\* C5: after the finalizer, no worker the Manager ever launched is still
\* running; stated here without the workers that a stop(wait=False) has
\* asked to terminate and that are on their way out: no worker of a
\* finalized Manager runs on without ever having been sent terminate().
C5_NoOrphanAfterDel ==
    \A m \in Managers :
        pc[m] = "finalized"
            => \A w \in Workers :
                  (worker[w].by = m /\ Alive(w)) => worker[w].term

\* The step in which the application calls operation o of m.
Calls(m, o) == pc[m] = "idle" /\ pc'[m] # "idle" /\ call'[m].op = o

\* C6: stop() is total and idempotent: every stop returns normally with
\* process null, and a stop on a Manager that owns no process (never
\* started, or just stopped) returns at once, sends no terminate request
\* and changes neither process nor any worker.
C6_StopIdempotent ==
    /\ [](\A m \in Managers :
            (Done(m) /\ call[m].op = "stop")
                => (call[m].result = "ok" /\ process[m] = NoProc))
    /\ [][\A m \in Managers :
            (Calls(m, "stop") /\ process[m] = NoProc)
                => /\ pc'[m] = "done"
                   /\ call'[m].result = "ok"
                   /\ ~call'[m].term
                   /\ process' = process
                   /\ worker' = worker]_vars

\* C6 witness: a stop that found no process, on a Manager whose worker an
\* earlier stop had asked to terminate.
C6_Witness ==
    \E m \in Managers :
        /\ Done(m) /\ call[m].op = "stop" /\ call[m].entry = NoProc
        /\ \E w \in Workers : worker[w].by = m /\ worker[w].term

\* C7: a stop(wait) on a Manager that owns a process sends terminate() to
\* that worker, blocks while wait is true until the worker has exited (so
\* the worker no longer holds the address), and returns with process null.
C7_StopTerminates ==
    \A m \in Managers :
        /\ pc[m] = "stop_wait"
              => /\ process[m] = call[m].entry /\ process[m] # NoProc
                 /\ worker[process[m]].term
        /\ (Done(m) /\ call[m].op = "stop" /\ call[m].entry # NoProc)
              => /\ call[m].term
                 /\ worker[call[m].entry].term
                 /\ process[m] = NoProc
                 /\ call[m].result = "ok"
                 /\ (call[m].wait => ~Alive(call[m].entry))

\* C7 witness: a stop(wait=True) of a worker has returned, and the other
\* Manager has started a worker on the same address and found it ready.
C7_Witness ==
    \E m, n \in Managers :
        /\ m # n
        /\ Stopped(m)
        /\ Done(n) /\ call[n].op = "start" /\ call[n].afterStop
        /\ call[n].entry = NoProc /\ call[n].result = "ok"
        /\ call[n].h # NoProc
        /\ worker[call[n].h].st = "serving"

\* C8: wait() on a Manager that owns a process returns only after that
\* worker has exited, sends no terminate request, and returns with
\* process null; wait() on a Manager that owns no process returns at once
\* and changes nothing.
C8_WaitBlocksUntilExit ==
    /\ [](\A m \in Managers :
            /\ pc[m] = "wait_wait"
                  => (process[m] = call[m].entry /\ ~call[m].term)
            /\ (Done(m) /\ call[m].op = "wait")
                  => /\ call[m].result = "ok"
                     /\ ~call[m].term
                     /\ process[m] = NoProc
                     /\ (call[m].entry # NoProc => ~Alive(call[m].entry)))
    /\ [][\A m \in Managers :
            /\ (pc[m] # pc'[m] /\ call'[m].op = "wait")
                  => \A w \in Workers : worker'[w].term = worker[w].term
            /\ (Calls(m, "wait") /\ process[m] = NoProc)
                  => /\ pc'[m] = "done"
                     /\ call'[m].result = "ok"
                     /\ process' = process
                     /\ worker' = worker]_vars

\* C8 witness: wait() has returned after the worker exited on its own.
C8_Witness ==
    \E m \in Managers :
        /\ Done(m) /\ call[m].op = "wait" /\ call[m].entry # NoProc
        /\ ~worker[call[m].entry].term

\* C9: every failing exit of ready_wait is one of the three WorkerErrors
\* NoSubprocess, StartupTimeout, ProcessExitedUnexpectedly, and leaves
\* process null.
C9_OnlyWorkerErrors ==
    \A m \in Managers :
        (Done(m) /\ (call[m].op = "ready_wait" \/ call[m].h # NoProc)
              /\ call[m].result # "ok")
            => /\ call[m].result \in {"NoSubprocess", "StartupTimeout",
                                      "ProcessExitedUnexpectedly"}
               /\ process[m] = NoProc

\* C10: ready_wait on a Manager that owns no process fails at once with
\* NoSubprocess: no poll, no health probe, no sleep, process still null;
\* and NoSubprocess is raised in no other case.
C10_NoSubprocess ==
    \A m \in Managers :
        /\ (call[m].op = "ready_wait" /\ call[m].entry = NoProc)
              => /\ pc[m] = "done"
                 /\ call[m].result = "NoSubprocess"
                 /\ call[m].nPolls = 0
                 /\ call[m].nProbes = 0
                 /\ call[m].nSleeps = 0
                 /\ call[m].elapsed = 0
                 /\ process[m] = NoProc
        /\ call[m].result = "NoSubprocess"
              => (call[m].op = "ready_wait" /\ call[m].entry = NoProc)

\* C10 witness: ready_wait has raised NoSubprocess.
C10_Witness ==
    \E m \in Managers :
        Done(m) /\ call[m].result = "NoSubprocess" /\ call[m].nPolls = 0

\* C11: a WorkerError raised by health() inside the polling loop of
\* ready_wait never reaches the caller and the step that meets it leaves
\* process as it was: the loop goes on to the timeout check and, when the
\* timeout has not passed, sleeps, polls again and, the worker still
\* running, probes again.  A call whose last probe failed so ends only by
\* the timeout or by a poll that finds the worker exited.
C11_HealthFailureSwallowed ==
    /\ [](\A m \in Managers :
            /\ call[m].result # "HealthCheckFailure"
            /\ call[m].health = "WorkerError"
                  => \/ pc[m] \in {"rw_sleep", "rw_termwait", "rw_health"}
                     \/ /\ Done(m)
                        /\ call[m].result \in {"StartupTimeout",
                                               "ProcessExitedUnexpectedly"})
    /\ [][\A m \in Managers :
            /\ (pc[m] = "rw_health" /\ call'[m].nProbes = call[m].nProbes + 1
                  /\ call'[m].health = "WorkerError")
                  => /\ process' = process
                     /\ pc'[m] = IF call'[m].elapsed > call'[m].timeout
                                 THEN "rw_termwait" ELSE "rw_sleep"
            /\ (pc[m] = "rw_sleep" /\ pc'[m] # "rw_sleep")
                  => /\ call'[m].nSleeps = call[m].nSleeps + 1
                     /\ call'[m].nPolls = call[m].nPolls + 1
                     /\ call'[m].nProbes = call[m].nProbes
                     /\ IF call'[m].status = None
                        THEN pc'[m] = "rw_health" /\ process' = process
                        ELSE /\ pc'[m] = "done"
                             /\ call'[m].result
                                   = "ProcessExitedUnexpectedly"]_vars

\* C11 witness: ready_wait has succeeded on its second probe, after a probe
\* that failed and one sleep, with the worker it was called with still owned.
C11_Witness ==
    \E m \in Managers :
        /\ Done(m) /\ call[m].result = "ok" /\ call[m].nProbes = 2
        /\ call[m].nSleeps = 1
        /\ process[m] = call[m].h

\* C12: start on a postgres Manager while something listens on host:port
\* raises the AddressInUse WorkerError at once, before the launch: the step
\* creates no worker and leaves process as it was, and a call that ended so
\* polled nothing, probed nothing and touched no handle.
C12_AddressInUseBeforeLaunch ==
    /\ [](\A m \in Managers :
            call[m].result = "AddressInUse"
               => /\ Done(m) /\ call[m].op = "start"
                  /\ kind[m] = "postgres"
                  /\ call[m].nPolls = 0 /\ call[m].nProbes = 0
                  /\ call[m].h = NoProc
                  /\ process[m] = call[m].entry)
    /\ [][\A m \in Managers :
            (Calls(m, "start") /\ kind[m] = "postgres" /\ Listening)
               => /\ pc'[m] = "done"
                  /\ call'[m].result = "AddressInUse"
                  /\ worker' = worker
                  /\ process' = process]_vars

\* C12 witness: a postgres start has raised AddressInUse against a listener
\* no Manager launched, and no worker was ever created.
C12_Witness ==
    \E m \in Managers :
        /\ Done(m) /\ call[m].result = "AddressInUse" /\ foreign
        /\ \A w \in Workers : worker[w].st = "none"

\* C13: address_free_check raises its WorkerError exactly when a TCP connect
\* to host:port succeeds at the moment of the call, that is, when something
\* accepts connections there; when the connect is refused it returns
\* normally and the caller (postgres start) goes on to the launch.
C13_RaisesIffConnectSucceeds ==
    [][\A m \in Managers :
         (Calls(m, "start") /\ kind[m] = "postgres")
            => /\ (call'[m].result = "AddressInUse") <=> Listening
               /\ (pc'[m] = "start_launch" /\ call'[m].result = "none")
                     <=> ~Listening]_vars

\* C13 witness: the check of a postgres start has returned normally while a
\* worker launched earlier runs but does not listen yet.
C13_Witness ==
    \E m \in Managers :
        /\ pc[m] = "start_launch"
        /\ \E w \in Workers : worker[w].st = "running"

\* C14: at most one worker launched by a Manager is alive; stated here in
\* its weakest form, the case the claim names: a Manager never owns the
\* handle of one worker while an earlier worker it launched still runs,
\* was never asked to terminate, and is referenced by nobody.
C14_NoReplacedRunningWorker ==
    \A m \in Managers : \A w \in Workers :
        (worker[w].by = m /\ Alive(w) /\ ~worker[w].term)
            => (process[m] = NoProc \/ process[m] = w)

\* C15 as claimed: every step in which process goes from a handle to null
\* is a step of stop (called by the application or by the finalizer), of
\* the timeout path of ready_wait, or of its unexpected-exit path.
C15_ClearedOnlyByStopOrReadyWait ==
    [][\A m \in Managers :
         (process[m] # NoProc /\ process'[m] = NoProc)
            => \/ call'[m].op \in {"stop", "__del__"}
               \/ call'[m].result \in {"StartupTimeout",
                                       "ProcessExitedUnexpectedly"}]_vars

\* C15 amended: every step in which process goes from a handle to null is
\* taken by exactly one of: stop (called by the application or by the
\* finalizer), wait returning after the worker has exited, the timeout
\* path of ready_wait, the unexpected-exit path of ready_wait; the step
\* ends the call, and no other operation clears process.
C15_ClearedByExactlyOnePath ==
    [][\A m \in Managers :
         (process[m] # NoProc /\ process'[m] = NoProc)
            => LET c == call'[m]
                   byStop == /\ c.op \in {"stop", "__del__"}
                             /\ c.term /\ c.result = "ok"
                   byWait == /\ c.op = "wait" /\ ~c.term /\ c.result = "ok"
                             /\ ~Alive(process[m])
                   byTimeout == /\ pc[m] = "rw_termwait" /\ c.term
                                /\ c.result = "StartupTimeout"
                   byExit == /\ c.status # None
                             /\ c.result = "ProcessExitedUnexpectedly"
                   P == <<byStop, byWait, byTimeout, byExit>>
               IN /\ Cardinality({i \in 1..4 : P[i]}) = 1
                  /\ pc'[m] = "done"]_vars

\* C15 witness: wait() has returned and cleared process after the worker
\* it owned exited without having been asked to.
C15_Witness ==
    \E m \in Managers :
        /\ Done(m) /\ call[m].op = "wait" /\ call[m].entry # NoProc
        /\ process[m] = NoProc
        /\ worker[call[m].entry] = [st |-> "exited", by |-> m, term |-> FALSE]

\* C16: with two Managers, no worker's handle is owned by both; a handle a
\* Manager owns is of a worker that Manager launched; every start that
\* assigns a handle assigns one of a worker created in that step; and a
\* terminate request reaches a worker only in a step of the Manager that
\* launched it and owned its handle.
C16_ExclusiveOwnership ==
    /\ [](\A m \in Managers :
            process[m] # NoProc
               => /\ worker[process[m]].by = m
                  /\ \A n \in Managers \ {m} : process[n] # process[m])
    /\ [][/\ \A m \in Managers :
               (process'[m] # process[m] /\ process'[m] # NoProc)
                  => /\ worker[process'[m]].st = "none"
                     /\ worker'[process'[m]].by = m
                     /\ call'[m].op = "start"
          /\ \A w \in Workers :
               (worker'[w].term /\ ~worker[w].term)
                  => LET m == worker[w].by
                     IN /\ process[m] = w
                        /\ call'[m].term
                        /\ pc'[m] # pc[m]
                        /\ \A n \in Managers \ {m} :
                             pc'[n] = pc[n] /\ call'[n] = call[n]]_vars

\* C16 witness: one Manager's stop has terminated its worker, which has
\* exited, while the other Manager owns a second worker that runs and was
\* never asked to terminate.
C16_Witness ==
    \E m \in Managers : \E n \in Managers \ {m} :
        /\ Done(m) /\ call[m].op = "stop" /\ call[m].term
        /\ worker[call[m].entry] = [st |-> "exited", by |-> m, term |-> TRUE]
        /\ process[n] # NoProc /\ process[n] # call[m].entry
        /\ Alive(process[n]) /\ ~worker[process[n]].term

\* C17: start launches the worker and assigns its handle, and only after
\* that, and only when wait is true, runs ready_wait with the timeout it
\* was given.  start(wait=False) polls and probes nothing and returns with
\* the new worker's handle owned; start(wait=True) returns normally only
\* when its ready_wait worked on the new handle and ended on a successful
\* probe, and its StartupTimeout is raised only past the given timeout.
C17_StartThenReadyWait ==
    /\ [](\A m \in Managers :
            /\ pc[m] = "rw_enter"
                  => /\ call[m].op = "start" /\ call[m].wait
                     /\ process[m] # NoProc /\ process[m] # call[m].entry
                     /\ worker[process[m]].by = m
                     /\ call[m].nPolls = 0 /\ call[m].nProbes = 0
            /\ (call[m].op = "start" /\ ~call[m].wait)
                  => /\ pc[m] \in {"start_launch", "done"}
                     /\ call[m].nPolls = 0 /\ call[m].nProbes = 0
                     /\ call[m].h = NoProc
                     /\ (Done(m) /\ call[m].result = "ok")
                           => /\ process[m] # NoProc
                              /\ process[m] # call[m].entry
                              /\ worker[process[m]].by = m
            /\ (Done(m) /\ call[m].op = "start" /\ call[m].wait
                  /\ call[m].result = "ok")
                  => /\ call[m].h = process[m] /\ process[m] # NoProc
                     /\ process[m] # call[m].entry
                     /\ call[m].nProbes >= 1 /\ call[m].health = "ok"
            /\ (call[m].op = "start" /\ call[m].result = "StartupTimeout")
                  => call[m].elapsed > call[m].timeout)
    /\ [][\A m \in Managers :
            (pc[m] # "rw_enter" /\ pc'[m] = "rw_enter")
               => /\ process'[m] # process[m]
                  /\ worker[process'[m]].st = "none"]_vars

\* C17 witness: start(wait=False) has returned with the new worker owned and
\* not yet listening, so no probe could have succeeded.
C17_Witness ==
    \E m \in Managers :
        /\ Done(m) /\ call[m].op = "start" /\ ~call[m].wait
        /\ call[m].result = "ok"
        /\ process[m] # NoProc /\ worker[process[m]].st = "running"
        /\ ~Listening

\* C18 as claimed: when the launch raises an OSError, start lets that same
\* OSError out with its contents as the launch raised them, runs no
\* ready_wait, and leaves process as it was when start was called.
C18_LaunchErrorUnchanged ==
    \A m \in Managers :
        call[m].result = "OSError"
           => /\ Done(m) /\ call[m].op = "start"
              /\ call[m].err = [type |-> "OSError",
                                strerror |-> call[m].raised]
              /\ call[m].nPolls = 0 /\ call[m].nProbes = 0
              /\ call[m].h = NoProc
              /\ process[m] = call[m].entry

\* C18 amended: when the launch raises an OSError, start lets that OSError
\* out, never a WorkerError; its strerror is as the launch raised it,
\* except that a postgres Manager has appended ": postgres; new path
\* element:" (and the path element) to it; start runs no ready_wait and
\* leaves process as it was when start was called.
C18_LaunchErrorNotWrapped ==
    \A m \in Managers :
        call[m].result = "OSError"
           => /\ Done(m) /\ call[m].op = "start"
              /\ call[m].raised \in OSErrors
              /\ call[m].err.type = "OSError"
              /\ call[m].err.strerror
                    = IF kind[m] = "postgres"
                      THEN call[m].raised \o ": postgres; new path element:"
                      ELSE call[m].raised
              /\ call[m].nPolls = 0 /\ call[m].nProbes = 0
              /\ call[m].h = NoProc
              /\ process[m] = call[m].entry

\* C18 witness: the launch of a second start has failed on a Manager that
\* owns a running worker, and the Manager still owns that worker.
C18_Witness ==
    \E m \in Managers :
        /\ Done(m) /\ call[m].result = "OSError"
        /\ call[m].entry # NoProc /\ process[m] = call[m].entry
        /\ Alive(process[m])

C20_ReadyAtFirstProbe ==
    /\ [](\A m \in Managers :
            /\ call[m].health = "ok"
                  => (Done(m) /\ call[m].result = "ok")
            /\ (call[m].health = "ok" /\ call[m].nProbes = 1)
                  => /\ call[m].nSleeps = 0
                     /\ call[m].nPolls = 1
                     /\ call[m].probeAt = 0
                     /\ call[m].elapsed \in env.delays
                     /\ call[m].elapsed < time_delta
                     /\ call[m].timeout \in env.timeouts)
    /\ [][\A m \in Managers :
            (pc[m] = "rw_health" /\ call[m].nProbes = 0
                  /\ call'[m].health = "ok")
               => /\ pc'[m] = "done"
                  /\ call'[m].result = "ok"
                  /\ call[m].elapsed = 0
                  /\ process' = process]_vars

\* C20 witness: ready_wait with the smallest timeout has returned
\* successfully on its first probe, which took time, without a sleep.
C20_Witness ==
    \E m \in Managers :
        /\ Done(m) /\ call[m].result = "ok" /\ call[m].nProbes = 1
        /\ call[m].nSleeps = 0 /\ call[m].timeout = 1
        /\ call[m].elapsed = 1

\* The finished ready_wait of m worked on a worker that began to serve at
\* time readyAt of the call, before the timeout, answered every probe made
\* since, and still serves.
HealthyBeforeTimeout(m) ==
    /\ RanReadyWait(m)
    /\ call[m].readyAt >= 0 /\ call[m].readyAt < call[m].timeout
    /\ worker[call[m].h].st = "serving"

C22_TimeoutWindow ==
    \A m \in Managers :
        /\ (RanReadyWait(m) /\ call[m].health = "WorkerError"
              /\ call[m].status = None)
              => call[m].result = "StartupTimeout"
        /\ call[m].result = "StartupTimeout"
              => /\ call[m].elapsed >= call[m].timeout
                 /\ call[m].nProbes = call[m].nSleeps + 1
                 /\ call[m].nPolls = call[m].nProbes
                 /\ call[m].elapsed = call[m].nSleeps * time_delta
                       => /\ call[m].elapsed <= call[m].timeout + time_delta
                          /\ call[m].probeAt = call[m].elapsed
                          /\ call[m].probeAt
                                = (call[m].nProbes - 1) * time_delta

\* C22 witness: StartupTimeout raised exactly one poll interval after the
\* timeout, by probes that took no time, the worker having exited only
\* after it was terminated.
C22_Witness ==
    \E m \in Managers :
        /\ Done(m) /\ call[m].result = "StartupTimeout"
        /\ call[m].elapsed = call[m].nSleeps * time_delta
        /\ call[m].elapsed = call[m].timeout + time_delta
        /\ ~call[m].gone

\* C23: when ready_wait raises ProcessExitedUnexpectedly for a worker whose
\* handle has a standard-error stream, the exception attribute of the
\* WorkerError holds the text the worker wrote to it (and the message the
\* Manager's name).
C23_StderrInCause ==
    \A m \in Managers :
        (call[m].result = "ProcessExitedUnexpectedly"
              /\ stderr_read(m) # None)
           => call[m].werr.exception = StderrText

\* C24 as claimed: health() of an nginx Manager succeeds only when the GET
\* of the status path returned a body that begins with "Active
\* connections:".
C24_HealthWantsPrefix ==
    \A m \in Managers :
        (kind[m] = "nginx" /\ call[m].health = "ok")
           => startswith(call[m].resp.body, "Active connections:")

\* C24 amended: health() of an nginx Manager succeeds exactly when the GET
\* of the status path returned an HTTP response, whatever its body, and
\* raises WorkerError exactly when the GET raised IOError.
C24_HealthWantsResponse ==
    \A m \in Managers :
        (kind[m] = "nginx" /\ call[m].nProbes > 0
              /\ call[m].health # "Exception")
           => /\ (call[m].health = "ok") <=> (call[m].resp.err = "")
              /\ (call[m].health = "WorkerError")
                     <=> (call[m].resp.err = "IOError")
              /\ call[m].resp.err = "" => call[m].resp.body # <<>>

\* C24 witness: a probe of an nginx Manager has succeeded on a response
\* that does not begin with the status prefix.
C24_Witness ==
    \E m \in Managers :
        /\ kind[m] = "nginx" /\ Done(m) /\ call[m].health = "ok"
        /\ call[m].resp.err = ""
        /\ ~startswith(call[m].resp.body, "Active connections:")

\* C25: nothing reserves the address between the check and the launch.  A
\* postgres start called while nothing listens passes its check also when
\* another postgres Manager has passed its own check and not launched yet,
\* or has launched a worker for the address that does not listen yet; and
\* a start that passed its check goes on to the launch without looking at
\* the address again.  (The state with two workers is C25_Witness.)
C25_CheckReservesNothing ==
    [][\A m \in Managers : \A n \in Managers \ {m} :
         /\ (/\ Calls(m, "start") /\ kind[m] = "postgres"
             /\ kind[n] = "postgres" /\ ~Listening
             /\ \/ pc[n] = "start_launch"
                \/ /\ process[n] # NoProc
                   /\ worker[process[n]].st = "running")
               => /\ pc'[m] = "start_launch"
                  /\ call'[m].result = "none"
         /\ (pc[m] = "start_launch" /\ pc'[m] # "start_launch")
               => \/ call'[m].result = "OSError"
                  \/ /\ process'[m] # process[m]
                     /\ worker'[process'[m]] = [st |-> "running", by |-> m,
                                                term |-> FALSE]]_vars

\* C25 witness: two postgres Managers on the same address are both inside
\* a start that passed the address check, and each owns a live worker it
\* spawned for that address.
C25_Witness ==
    /\ \A m \in Managers :
          /\ kind[m] = "postgres" /\ call[m].op = "start"
          /\ pc[m] \in {"rw_enter", "rw_health", "rw_sleep", "done"}
          /\ call[m].result \in {"none", "ok"}
          /\ process[m] # NoProc /\ worker[process[m]].by = m
          /\ Alive(process[m])
    /\ process["m1"] # process["m2"]

\* C26: ready_wait (and start) return successfully only when the Manager's
\* own worker serves its address; stated here in its weakest form, that no
\* ready_wait has returned successfully while the worker it waited for is
\* alive and has never bound the address.
C26_ReadyOnlyByOwnWorker ==
    \A m \in Managers :
        (RanReadyWait(m) /\ call[m].result = "ok")
           => worker[call[m].h].st # "running"

\* Fair progress: the thread inside ready_wait takes its next step (a probe
\* returns, a sleep ends, a wait() returns once the worker has exited), and
\* a worker that was sent terminate() exits.
Fairness ==
    /\ \A m \in Managers :
          /\ WF_vars(RWEnter(m) /\ Track)
          /\ WF_vars(RWHealth(m) /\ Track)
          /\ WF_vars(RWSleep(m) /\ Track)
          /\ WF_vars(RWTimeoutWait(m) /\ Track)
    /\ \A w \in Workers : WF_vars(worker[w].term /\ WorkerExit(w) /\ Track)

\* One Manager with no record of the moment its worker begins to serve
\* and refused connects only, under fair progress.
InitLive ==
    InitWith({"m1"}, Timeouts, ProbeDelays, {}, {"ECONNREFUSED"}, FALSE)

SpecLive == InitLive /\ [][Next]_vars /\ Fairness

InReadyWait(m) ==
    pc[m] \in {"rw_enter", "rw_health", "rw_sleep", "rw_termwait"}

C28_TerminateOnlyOnTimeout ==
    /\ [](\A m \in Managers :
            /\ pc[m] = "rw_termwait"
                  => /\ call[m].term /\ call[m].result = "none"
                     /\ process[m] = call[m].h /\ process[m] # NoProc
                     /\ worker[process[m]].term
                     /\ call[m].elapsed > call[m].timeout
            /\ (RanReadyWait(m) /\ call[m].result # "StartupTimeout")
                  => ~call[m].term
            /\ call[m].result = "StartupTimeout"
                  => (call[m].term /\ process[m] = NoProc))
    /\ [][\A m \in Managers :
            /\ (InReadyWait(m) /\ call'[m].term /\ ~call[m].term)
                  => /\ pc[m] = "rw_health" /\ pc'[m] = "rw_termwait"
                     /\ call'[m].health = "WorkerError"
                     /\ process' = process
                     /\ worker'[process[m]].term
            /\ (InReadyWait(m) /\ pc[m] # "rw_health")
                  => \A w \in Workers : worker'[w].term = worker[w].term
            /\ (pc[m] = "rw_termwait" /\ pc'[m] # "rw_termwait")
                  => /\ ~Alive(process[m])
                     /\ pc'[m] = "done"
                     /\ process'[m] = NoProc
                     /\ call'[m].result = "StartupTimeout"]_vars

\* C28 witness: ready_wait has sent terminate() and blocks in wait(): the
\* worker is still alive, process is still set, nothing is raised yet.
C28_Witness ==
    \E m \in Managers :
        /\ pc[m] = "rw_termwait" /\ Alive(process[m])
        /\ worker[process[m]].term /\ call[m].result = "none"

\* C29: between operations, a Manager whose process is null has no live
\* worker; stated here in its weakest form, which lets a worker that was
\* sent terminate() take its time to exit: a Manager that is between
\* operations with process null has launched no worker that is still alive
\* and was never asked to terminate.
C29_NullMeansNoLiveWorker ==
    \A m \in Managers :
        (pc[m] \in {"idle", "done"} /\ process[m] = NoProc)
           => \A w \in Workers :
                 worker[w].by = m => (~Alive(w) \/ worker[w].term)

\* C30: a ready_wait that returns successfully leaves ownership as it was:
\* the Manager owns the handle the ready_wait began with, the call sent no
\* terminate(), the worker was never asked to terminate, and the step that
\* returns changes neither process nor any worker.
C30_SuccessKeepsOwnership ==
    /\ [](\A m \in Managers :
            (RanReadyWait(m) /\ call[m].result = "ok")
               => /\ process[m] = call[m].h
                  /\ call[m].op = "ready_wait" => process[m] = call[m].entry
                  /\ ~call[m].term
                  /\ ~worker[call[m].h].term
                  /\ worker[call[m].h].by = m)
    /\ [][\A m \in Managers :
            (InReadyWait(m) /\ pc'[m] = "done" /\ call'[m].result = "ok")
               => /\ process' = process
                  /\ worker' = worker]_vars

\* C30 witness: ready_wait called by the application on an owned worker
\* has returned successfully after sleeping, with the same worker owned.
C30_Witness ==
    \E m \in Managers :
        /\ Done(m) /\ call[m].op = "ready_wait" /\ call[m].result = "ok"
        /\ call[m].nSleeps >= 1
        /\ call[m].entry # NoProc /\ process[m] = call[m].entry

\* The results of a call that are a WorkerError raised by start or
\* ready_wait.
WorkerErrors ==
    {"NoSubprocess", "AddressInUse", "StartupTimeout",
     "ProcessExitedUnexpectedly"}

\* The text t occurs in the text s.
contains(s, t) ==
    \E i \in 1..(Len(s) - Len(t) + 1) : SubSeq(s, i, i + Len(t) - 1) = t

\* C33: every WorkerError that start or ready_wait lets out (no
\* subprocess, address in use, startup timeout, worker exited) has the
\* name of its Manager in its message, and the name is not what its
\* wrapped-cause field holds.
C33_NameInMessage ==
    \A m \in Managers :
        (Done(m) /\ call[m].result \in WorkerErrors)
           => /\ contains(call[m].werr.args, name(m))
              /\ call[m].werr.exception # name(m)

\* The address check of the call of m has run address_in_use.
Connected(m) == call[m].conn # "none"

\* C34: address_in_use never raises and leaves no connection open: when
\* the connect succeeded it returned True (start raises AddressInUse) and
\* the socket is closed; when the connect failed with any socket.error it
\* returned False (start goes on to the launch) and there is no socket;
\* no call ends with a socket.error.
C34_AddressInUseTotal ==
    \A m \in Managers :
        /\ call[m].result # "socket.error"
        /\ call[m].sock # "open"
        /\ Connected(m) =>
              /\ call[m].conn = "connected" =>
                    /\ Done(m) /\ call[m].result = "AddressInUse"
                    /\ call[m].sock = "closed"
              /\ call[m].conn \in SocketErrors =>
                    /\ pc[m] = "start_launch" /\ call[m].result = "none"
                    /\ call[m].sock = "none"
        /\ call[m].result = "AddressInUse" => call[m].conn = "connected"
        /\ pc[m] = "start_launch" => call[m].conn \in SocketErrors

\* C34 witness: the connect of the address check timed out and start went
\* on to the launch.
C34_Witness ==
    \E m \in Managers :
        /\ pc[m] = "start_launch" /\ call[m].conn = "timeout"
        /\ call[m].sock = "none" /\ ~Listening

\* The transitions of the lifecycle as claimed.
ClaimedTransitions ==
    {<<"Idle", "Starting">>, <<"Starting", "Ready">>,
     <<"Ready", "Stopped">>, <<"Starting", "Failed">>}

\* The transitions the operations of a Manager make: start launches from
\* every state, stop and wait lead to Stopped and a failed ready_wait to
\* Failed from both states in which a handle is owned.
Transitions ==
    {<<"Idle", "Starting">>, <<"Stopped", "Starting">>,
     <<"Failed", "Starting">>, <<"Ready", "Starting">>,
     <<"Starting", "Ready">>,
     <<"Starting", "Stopped">>, <<"Ready", "Stopped">>,
     <<"Starting", "Failed">>, <<"Ready", "Failed">>}

\* C31 as claimed: the lifecycle state of a Manager changes only along
\* Idle -> Starting -> Ready -> Stopped and Starting -> Failed, so that
\* Stopped and Failed are never left.
C31_OnlyClaimedTransitions ==
    [][\A m \in Managers :
          life'[m] # life[m] => <<life[m], life'[m]>> \in ClaimedTransitions]_vars

\* C31: Ready is entered only from Starting, by a health() probe of
\* ready_wait that succeeded; Stopped and Failed are entered only from
\* Starting or Ready; Idle is never entered again; Starting is entered by
\* start from every state, Stopped and Failed included; and a Manager is in
\* Starting or Ready exactly while it owns a handle.
C31_Lifecycle ==
    /\ [](\A m \in Managers :
            /\ life[m] \in LifeStates
            /\ life[m] \in {"Starting", "Ready"} <=> process[m] # NoProc)
    /\ [][\A m \in Managers :
            life'[m] # life[m] =>
               /\ <<life[m], life'[m]>> \in Transitions
               /\ life'[m] = "Starting" => call'[m].op = "start"
               /\ life'[m] = "Ready" =>
                     /\ pc[m] = "rw_health" /\ call'[m].health = "ok"
                     /\ call'[m].nProbes = call[m].nProbes + 1
                     /\ process'[m] = process[m]]_vars

\* C31 witness: a Manager that was stopped has been started again and its
\* new worker has been found ready.
C31_Witness ==
    \E m \in Managers :
        /\ life[m] = "Ready" /\ process[m] = 2
        /\ worker[1].by = m /\ worker[1].term /\ worker[1].st = "exited"
        /\ Done(m) /\ call[m].op = "start" /\ call[m].nProbes >= 1

\* The branches the loop of ready_wait can take on a poll of worker w
\* through a handle wrapped by h.
LoopBranches(h, w) == {StillRunning(s) : s \in poll_by(h, w)}

\* The call of m has polled its handle.
Polled(m) == call[m].nPolls >= 1 /\ call[m].h # NoProc

====
